---- MODULE Spec2Model ----
(***************************************************************************)
(* Aggregation-and-quarantine decision engine of the test-analysis plugin: *)
(* ParseTests and ParseTestsWithQuarantine (src/parser.go), with the path  *)
(* resolver and the quarantine matcher they call.                          *)
(*                                                                         *)
(* Strings that the code takes apart character by character (glob specs)   *)
(* are sequences of one-character strings; strings that are only compared  *)
(* or concatenated (class names, test names) are TLA+ strings.  A date     *)
(* string is a record saying whether the key holds a string, whether       *)
(* time.Parse("2006-01-02", .) accepts it, and which day it names.  An     *)
(* instant is a number of ticks since 00:00 UTC of day 0.                  *)
(***************************************************************************)
EXTENDS Integers, Sequences, FiniteSets, TLC

VARIABLES
    scope,                  \* which part of the input space the run draws from
    mode,                   \* the entry point called: "ParseTests" or "ParseTestsWithQuarantine"
    quarantineList,         \* the loaded quarantine document (argument)
    now,                    \* the instant time.Now() returns, in ticks UTC
    tz,                     \* offset of the local zone, in ticks east of UTC
    pc,                     \* position in the entry point: "call", "loop", "done"
    files,                  \* the resolved file list (local `files`)
    idx,                    \* 1-based index of the next file of the range loop
    stats,                  \* the TestStats accumulator (local `stats`)
    nonQuarantinedFailures, \* local counter of ParseTestsWithQuarantine
    expiredTests,           \* local counter of ParseTestsWithQuarantine
    err,                    \* the returned error
    logged,                 \* the error-level conditions logged so far
    seen,                   \* observer: tests of the files ingested without error, by status
    seenFailed,             \* observer: the failed tests of those files, in order
    ingested,               \* observer: per file read so far, whether IngestFile accepted it
    plugin,                 \* the Plugin value Exec runs on
    droneOutput,            \* whether the file named by DRONE_OUTPUT can be opened
    output,                 \* the lines of the file named by DRONE_OUTPUT
    output0,                \* observer: the lines that file held when Exec began
    exitCode,               \* the exit code of the process, -1 while it runs
    callPaths,              \* the glob specs of the call, where the caller holds them
    run,                    \* which of two successive calls over the same files is under way
    first,                  \* observer: what the first of the two calls returned
    disk,                   \* what IngestFile made of each file during the first call
    arg,                    \* argument of a direct call of a helper function
    res                     \* result of that call

vars == <<scope, mode, quarantineList, now, tz, pc, files, idx, stats,
          nonQuarantinedFailures, expiredTests, err, logged, seen, seenFailed, ingested,
          plugin, droneOutput, output, output0, exitCode, callPaths, run, first, disk,
          arg, res>>

(* What only the callers of the two entry points change *)
callerVars == <<plugin, droneOutput, output, output0, exitCode, callPaths, run, first, arg, res>>

---------------------------------------------------------------------------
(* Bounds of the model *)

MaxPaths == 2        \* glob specs per call
MaxTests == 2        \* tests per report file
MaxEntries == 2      \* entries of the quarantine list
TicksPerDay == 2     \* resolution of the clock
MaxTz == 1           \* largest zone offset, in ticks, either side of UTC
MaxLen == 4          \* characters of a test_globs value given to getPaths

(* The tests place start_date ten days before the current date. *)
TenDays == 10

(* The local calendar day on which the run takes place. *)
Today == TenDays

---------------------------------------------------------------------------
(* Test reports: gojunit types *)

StatusPassed == "passed"
StatusSkipped == "skipped"
StatusFailed == "failed"
StatusError == "error"

KnownStatuses == {StatusPassed, StatusSkipped, StatusFailed, StatusError}

(* A Status value the parser may record that is none of the four constants. *)
StatusOther == "unknown"

AllStatuses == KnownStatuses \cup {StatusOther}

Test(classname, name, status) ==
    [Classname |-> classname, Name |-> name, Status |-> status]

(* The tests a report may hold: every status, and two failing identifiers. *)
TestPool ==
    {Test("x", "y", s) : s \in AllStatuses} \cup {Test("a.b", "c", StatusFailed)}

SeqsUpTo(S, n) == UNION {[1..k -> S] : k \in 0..n}

RECURSIVE Flatten(_)
Flatten(suites) ==
    IF suites = <<>> THEN <<>> ELSE Head(suites).Tests \o Flatten(Tail(suites))

Suite(tests) == [Tests |-> tests]

(* What IngestFile returns for one file: an error, or the suites of the    *)
(* file.  A file of at most n tests is no suite at all, or one suite, or   *)
(* two suites that split the tests in the middle (the first is empty when  *)
(* there is a single test, both are when there is none).                   *)
IngestResults(n) ==
    {[err |-> TRUE, suites |-> <<>>]} \cup
    {[err |-> FALSE, suites |-> <<>>]} \cup
    {[err |-> FALSE, suites |-> <<Suite(ts)>>] : ts \in SeqsUpTo(TestPool, n)} \cup
    {[err |-> FALSE,
      suites |-> <<Suite(SubSeq(ts, 1, Len(ts) \div 2)),
                   Suite(SubSeq(ts, Len(ts) \div 2 + 1, Len(ts)))>>] :
        ts \in SeqsUpTo(TestPool, n)}

---------------------------------------------------------------------------
(* Path resolver *)

Whitespace == {" ", "\t"}

(* strings.Split(s, sep) for a one-character separator: the text before   *)
(* the first separator, then the pieces of the rest; one piece, possibly  *)
(* empty, when there is no separator.                                     *)
RECURSIVE SplitFrom(_, _, _)
SplitFrom(s, sep, piece) ==
    IF s = <<>> THEN <<piece>>
    ELSE IF Head(s) = sep THEN <<piece>> \o SplitFrom(Tail(s), sep, <<>>)
    ELSE SplitFrom(Tail(s), sep, Append(piece, Head(s)))

Split(s, sep) == SplitFrom(s, sep, <<>>)

RECURSIVE TrimLeft(_)
TrimLeft(val) ==
    IF val # <<>> /\ Head(val) \in Whitespace THEN TrimLeft(Tail(val)) ELSE val

RECURSIVE TrimRight(_)
TrimRight(val) ==
    IF val # <<>> /\ val[Len(val)] \in Whitespace
    THEN TrimRight(SubSeq(val, 1, Len(val) - 1))
    ELSE val

TrimSpace(val) == TrimRight(TrimLeft(val))

RECURSIVE getPathsFrom(_, _)
getPathsFrom(globValSplit, paths) ==
    IF globValSplit = <<>> THEN paths
    ELSE IF Head(globValSplit) = <<>> THEN getPathsFrom(Tail(globValSplit), paths)
    ELSE getPathsFrom(Tail(globValSplit), Append(paths, TrimSpace(Head(globValSplit))))

getPaths(globVal) == getPathsFrom(Split(globVal, ","), <<>>)

(* The report files on disk and the home directory os.UserHomeDir returns. *)
FileA == <<"a">>
FileB == <<"b">>
HomeDir == <<"/", "h">>

(* The glob specs a call may be given: the two files, a pattern matching   *)
(* both, a path matching nothing, another user's home, a malformed pattern *)
(* and a path under the own home directory.                                *)
PathPool == {FileA, FileB, <<"*">>, <<"z">>, <<"~", "u">>, <<"[">>, <<"~", "/", "z">>}

Ok(v) == [err |-> FALSE, val |-> v, msg |-> ""]
FailWith(msg) == [err |-> TRUE, val |-> <<>>, msg |-> msg]
Fail == FailWith("")

(* filepath.Join(dir, rest) where the separator is "/": the pieces of     *)
(* rest that are not empty, each after a separator.                       *)
RECURSIVE JoinPieces(_, _)
JoinPieces(dir, pieces) ==
    IF pieces = <<>> THEN dir
    ELSE IF Head(pieces) = <<>> THEN JoinPieces(dir, Tail(pieces))
    ELSE JoinPieces(dir \o <<"/">> \o Head(pieces), Tail(pieces))

Join(dir, rest) == JoinPieces(dir, Split(rest, "/"))

(* expandTilde, given what os.UserHomeDir returns *)
expandTildeIn(path, home) ==
    IF path = <<>> THEN Ok(path)
    ELSE IF path[1] # "~" THEN Ok(path)
    ELSE IF Len(path) > 1 /\ path[2] # "/" /\ path[2] # "\\"
         THEN FailWith("cannot expand user-specific home dir")
    ELSE IF home.err THEN FailWith("failed to fetch home directory")
    ELSE Ok(Join(home.val, SubSeq(path, 2, Len(path))))

(* The entry points run where the home directory is known *)
expandTilde(path) == expandTildeIn(path, Ok(HomeDir))

(* zglob.Glob against the disk above *)
Glob(path) ==
    IF path = <<"[">> THEN Fail
    ELSE IF path = <<"*">> THEN Ok(<<FileA, FileB>>)
    ELSE IF path \in {FileA, FileB} THEN Ok(<<path>>)
    ELSE Ok(<<>>)

(* uniqueItems never finding an item in its set *)
RECURSIVE uniqueItemsFrom_NoSet(_, _, _)
uniqueItemsFrom_NoSet(items, result, set) ==
    IF items = <<>> THEN result
    ELSE uniqueItemsFrom_NoSet(Tail(items), Append(result, Head(items)), set)

RECURSIVE uniqueItemsFrom(_, _, _)
uniqueItemsFrom(items, result, set) ==
    IF items = <<>> THEN result
    ELSE IF Head(items) \notin set
         THEN uniqueItemsFrom(Tail(items), Append(result, Head(items)), set \cup {Head(items)})
         ELSE uniqueItemsFrom(Tail(items), result, set)

uniqueItems(items) == uniqueItemsFrom(items, <<>>, {})

(* getFiles leaving its loop at the first spec that fails *)
RECURSIVE getFilesFrom_AbortOnError(_, _)
getFilesFrom_AbortOnError(paths, acc) ==
    IF paths = <<>> THEN acc
    ELSE LET e == expandTilde(Head(paths)) IN
         IF e.err THEN acc
         ELSE LET g == Glob(e.val) IN
              IF g.err THEN acc
              ELSE getFilesFrom_AbortOnError(Tail(paths), acc \o g.val)

RECURSIVE getFilesFrom(_, _)
getFilesFrom(paths, acc) ==
    IF paths = <<>> THEN acc
    ELSE LET e == expandTilde(Head(paths)) IN
         IF e.err THEN getFilesFrom(Tail(paths), acc)
         ELSE LET g == Glob(e.val) IN
              IF g.err THEN getFilesFrom(Tail(paths), acc)
              ELSE getFilesFrom(Tail(paths), acc \o g.val)

getFiles(paths) == uniqueItems(getFilesFrom(paths, <<>>))

---------------------------------------------------------------------------
(* Quarantine document *)

Str(s) == [ok |-> TRUE, s |-> s]
NoStr == [ok |-> FALSE, s |-> ""]

DateStr(day) == [ok |-> TRUE, valid |-> TRUE, day |-> day]
BadDate == [ok |-> TRUE, valid |-> FALSE, day |-> 0]
NoDate == [ok |-> FALSE, valid |-> FALSE, day |-> 0]

Entry(classname, name, start, end) ==
    [ismap |-> TRUE, classname |-> classname, name |-> name,
     start_date |-> start, end_date |-> end]

(* The start_date / end_date pairs an entry may carry, around Today. *)
Windows ==
    { <<NoDate, NoDate>>,
      <<DateStr(Today - TenDays), NoDate>>,
      <<BadDate, DateStr(Today - 1)>>,
      <<DateStr(Today - TenDays), BadDate>>,
      <<DateStr(Today - TenDays), DateStr(Today - 1)>>,
      <<DateStr(Today - TenDays), DateStr(Today)>>,
      <<DateStr(Today - TenDays), DateStr(Today + 1)>>,
      <<DateStr(Today), DateStr(Today + 1)>>,
      <<DateStr(Today), DateStr(Today)>>,
      <<DateStr(Today + 1), DateStr(Today + 1)>> }

Entries ==
    {Entry(Str("a.b"), Str("c"), w[1], w[2]) : w \in Windows} \cup
    {Entry(Str("x"), Str("y"), NoDate, NoDate)}

QList(tests) == [ok |-> TRUE, tests |-> tests]

(* A document without a quarantine_tests sequence *)
NoQList == [ok |-> FALSE, tests |-> <<>>]

---------------------------------------------------------------------------
(* Quarantine matcher *)

(* time.Parse("2006-01-02", s): midnight UTC of the day named *)
timeParse(d) == [err |-> ~d.valid, t |-> d.day * TicksPerDay]

Before(t, u) == t < u

(* After that also holds of equal instants *)
After_OrEqual(t, u) == t >= u

After(t, u) == t > u

(* time.Time.Format("2006-01-02") of an instant in the local zone *)
LocalDay(t, zone) == (t + zone) \div TicksPerDay

Identifier(classname, name) == classname \o "." \o name

RECURSIVE isQuarantinedFrom(_, _)
(* isQuarantined, were it to look at the first entry only *)
isQuarantinedFrom_FirstOnly(testIdentifier, tests) ==
    /\ tests # <<>>
    /\ Head(tests).ismap
    /\ Head(tests).classname.ok /\ Head(tests).name.ok
    /\ Identifier(Head(tests).classname.s, Head(tests).name.s) = testIdentifier

isQuarantinedFrom(testIdentifier, tests) ==
    IF tests = <<>> THEN FALSE
    ELSE LET testMap == Head(tests) IN
         IF /\ testMap.ismap
            /\ testMap.classname.ok /\ testMap.name.ok
            /\ Identifier(testMap.classname.s, testMap.name.s) = testIdentifier
         THEN TRUE
         ELSE isQuarantinedFrom(testIdentifier, Tail(tests))

(* isQuarantined, were a document without the sequence to quarantine all *)
isQuarantined_MalformedMatches(testIdentifier, qlist) ==
    IF ~qlist.ok THEN TRUE ELSE isQuarantinedFrom(testIdentifier, qlist.tests)

isQuarantined(testIdentifier, qlist) ==
    IF ~qlist.ok THEN FALSE ELSE isQuarantinedFrom(testIdentifier, qlist.tests)

RECURSIVE isExpiredFrom(_, _, _)
isExpiredFrom(testIdentifier, tests, currentDate) ==
    IF tests = <<>> THEN FALSE
    ELSE LET testMap == Head(tests)
             rest == isExpiredFrom(testIdentifier, Tail(tests), currentDate)
         IN
         IF /\ testMap.ismap
            /\ testMap.classname.ok /\ testMap.name.ok
            /\ Identifier(testMap.classname.s, testMap.name.s) = testIdentifier
            /\ testMap.start_date.ok /\ testMap.end_date.ok
         THEN LET startTime == timeParse(testMap.start_date)
                  endTime == timeParse(testMap.end_date)
              IN IF startTime.err THEN rest
                 ELSE IF endTime.err THEN rest
                 ELSE IF Before(currentDate, startTime.t) \/ After(currentDate, endTime.t)
                      THEN TRUE
                      ELSE rest
         ELSE rest

isExpired(testIdentifier, qlist, currentDate) ==
    IF ~qlist.ok THEN FALSE ELSE isExpiredFrom(testIdentifier, qlist.tests, currentDate)

---------------------------------------------------------------------------
(* Aggregator *)

ZeroStats ==
    [TestCount |-> 0, FailCount |-> 0, PassCount |-> 0, SkippedCount |-> 0,
     ErrorCount |-> 0,
     NonQuarantinedFailuresList |-> <<>>, ExpiredTestsList |-> <<>>,
     QuarantinedFailuresList |-> <<>>]

NilErr == [nil |-> TRUE, msg |-> "", a |-> 0, b |-> 0]

(* fmt.Errorf(msg, a, b) *)
Errorf(msg, a, b) == [nil |-> FALSE, msg |-> msg, a |-> a, b |-> b]

(* CountTest without the "skipped" case *)
CountTest_NoSkipped(fileStats, test) ==
    LET c == [fileStats EXCEPT !.TestCount = @ + 1] IN
    CASE test.Status = "passed" -> [c EXCEPT !.PassCount = @ + 1]
      [] test.Status = "failed" -> [c EXCEPT !.FailCount = @ + 1]
      [] test.Status = "error" -> [c EXCEPT !.ErrorCount = @ + 1]
      [] OTHER -> c

(* CountTest, were a status outside the four counted as an error *)
CountTest_OtherIsError(fileStats, test) ==
    LET c == [fileStats EXCEPT !.TestCount = @ + 1] IN
    CASE test.Status = "passed" -> [c EXCEPT !.PassCount = @ + 1]
      [] test.Status = "failed" -> [c EXCEPT !.FailCount = @ + 1]
      [] test.Status = "skipped" -> [c EXCEPT !.SkippedCount = @ + 1]
      [] OTHER -> [c EXCEPT !.ErrorCount = @ + 1]

(* The switch of ParseTests on one test *)
CountTest(fileStats, test) ==
    LET c == [fileStats EXCEPT !.TestCount = @ + 1] IN
    CASE test.Status = "passed" -> [c EXCEPT !.PassCount = @ + 1]
      [] test.Status = "failed" -> [c EXCEPT !.FailCount = @ + 1]
      [] test.Status = "skipped" -> [c EXCEPT !.SkippedCount = @ + 1]
      [] test.Status = "error" -> [c EXCEPT !.ErrorCount = @ + 1]
      [] OTHER -> c

RECURSIVE CountTests(_, _)
CountTests(fileStats, tests) ==
    IF tests = <<>> THEN fileStats
    ELSE CountTests(CountTest(fileStats, Head(tests)), Tail(tests))

RECURSIVE CountSuites(_, _)
CountSuites(fileStats, suites) ==
    IF suites = <<>> THEN fileStats
    ELSE CountSuites(CountTests(fileStats, Head(suites).Tests), Tail(suites))

(* AddStats, were the total of the last file to replace the running total *)
AddStats_Overwrite(total, fileStats) ==
    [total EXCEPT
        !.TestCount = fileStats.TestCount,
        !.PassCount = fileStats.PassCount,
        !.FailCount = fileStats.FailCount,
        !.SkippedCount = fileStats.SkippedCount,
        !.ErrorCount = fileStats.ErrorCount]

(* stats.X += fileStats.X for the five counters *)
AddStats(total, fileStats) ==
    [total EXCEPT
        !.TestCount = @ + fileStats.TestCount,
        !.PassCount = @ + fileStats.PassCount,
        !.FailCount = @ + fileStats.FailCount,
        !.SkippedCount = @ + fileStats.SkippedCount,
        !.ErrorCount = @ + fileStats.ErrorCount]

(* The three identifier lists of TestStats, which the tests read.  Each   *)
(* failed test goes to one list, by its classification.                   *)
Lists(st) ==
    [NonQuarantinedFailuresList |-> st.NonQuarantinedFailuresList,
     ExpiredTestsList |-> st.ExpiredTestsList,
     QuarantinedFailuresList |-> st.QuarantinedFailuresList]

Bucket(lists, testIdentifier, quarantined, expired) ==
    IF ~quarantined
    THEN [lists EXCEPT !.NonQuarantinedFailuresList = Append(@, testIdentifier)]
    ELSE IF expired
    THEN [lists EXCEPT !.ExpiredTestsList = Append(@, testIdentifier)]
    ELSE [lists EXCEPT !.QuarantinedFailuresList = Append(@, testIdentifier)]

WithLists(st, lists) ==
    [st EXCEPT
        !.NonQuarantinedFailuresList = lists.NonQuarantinedFailuresList,
        !.ExpiredTestsList = lists.ExpiredTestsList,
        !.QuarantinedFailuresList = lists.QuarantinedFailuresList]

(* The state of ParseTestsWithQuarantine while it reads one file:         *)
(* fileStats, the two function-level counters, and the lists.             *)
QAcc(fileStats, nonQ, expired, lists) ==
    [fileStats |-> fileStats, nonQuarantinedFailures |-> nonQ,
     expiredTests |-> expired, lists |-> lists]

(* ClassifyFailed without the expiry check *)
ClassifyFailed_NeverExpired(acc, testIdentifier, qlist, currentDate) ==
    LET quarantined == isQuarantined(testIdentifier, qlist)
        counted ==
            IF ~quarantined
            THEN [acc EXCEPT !.nonQuarantinedFailures = @ + 1]
            ELSE acc
    IN [counted EXCEPT
          !.fileStats.FailCount = @ + 1,
          !.lists = Bucket(@, testIdentifier, quarantined, FALSE)]

(* ClassifyFailed, were an expired failure counted as non-quarantined too *)
ClassifyFailed_ExpiredTwice(acc, testIdentifier, qlist, currentDate) ==
    LET quarantined == isQuarantined(testIdentifier, qlist)
        expired == quarantined /\ isExpired(testIdentifier, qlist, currentDate)
        counted ==
            IF ~quarantined
            THEN [acc EXCEPT !.nonQuarantinedFailures = @ + 1]
            ELSE IF expired
            THEN [acc EXCEPT !.expiredTests = @ + 1, !.nonQuarantinedFailures = @ + 1]
            ELSE acc
    IN [counted EXCEPT
          !.fileStats.FailCount = @ + 1,
          !.lists = Bucket(@, testIdentifier, quarantined, expired)]

(* ClassifyFailed, were an actively quarantined failure left out of FailCount *)
ClassifyFailed_QuarantinedUncounted(acc, testIdentifier, qlist, currentDate) ==
    LET quarantined == isQuarantined(testIdentifier, qlist)
        expired == quarantined /\ isExpired(testIdentifier, qlist, currentDate)
        counted ==
            IF ~quarantined
            THEN [acc EXCEPT !.nonQuarantinedFailures = @ + 1]
            ELSE IF expired
            THEN [acc EXCEPT !.expiredTests = @ + 1]
            ELSE acc
    IN [counted EXCEPT
          !.fileStats.FailCount = IF quarantined /\ ~expired THEN @ ELSE @ + 1,
          !.lists = Bucket(@, testIdentifier, quarantined, expired)]

(* The "failed" case of ParseTestsWithQuarantine *)
ClassifyFailed(acc, testIdentifier, qlist, currentDate) ==
    LET quarantined == isQuarantined(testIdentifier, qlist)
        expired == quarantined /\ isExpired(testIdentifier, qlist, currentDate)
        counted ==
            IF ~quarantined
            THEN [acc EXCEPT !.nonQuarantinedFailures = @ + 1]
            ELSE IF expired
            THEN [acc EXCEPT !.expiredTests = @ + 1]
            ELSE acc
    IN [counted EXCEPT
          !.fileStats.FailCount = @ + 1,
          !.lists = Bucket(@, testIdentifier, quarantined, expired)]

(* CountTestQ with the error case counting a non-quarantined failure *)
CountTestQ_ErrorIsFailure(acc, test, qlist, currentDate) ==
    LET c == [acc EXCEPT !.fileStats.TestCount = @ + 1]
        testIdentifier == Identifier(test.Classname, test.Name)
    IN
    CASE test.Status = "passed" -> [c EXCEPT !.fileStats.PassCount = @ + 1]
      [] test.Status = "failed" -> ClassifyFailed(c, testIdentifier, qlist, currentDate)
      [] test.Status = "skipped" -> [c EXCEPT !.fileStats.SkippedCount = @ + 1]
      [] test.Status = "error" -> [c EXCEPT !.fileStats.ErrorCount = @ + 1,
                                            !.nonQuarantinedFailures = @ + 1]
      [] OTHER -> c

(* The switch of ParseTestsWithQuarantine on one test *)
CountTestQ(acc, test, qlist, currentDate) ==
    LET c == [acc EXCEPT !.fileStats.TestCount = @ + 1]
        testIdentifier == Identifier(test.Classname, test.Name)
    IN
    CASE test.Status = "passed" -> [c EXCEPT !.fileStats.PassCount = @ + 1]
      [] test.Status = "failed" -> ClassifyFailed(c, testIdentifier, qlist, currentDate)
      [] test.Status = "skipped" -> [c EXCEPT !.fileStats.SkippedCount = @ + 1]
      [] test.Status = "error" -> [c EXCEPT !.fileStats.ErrorCount = @ + 1]
      [] OTHER -> c

RECURSIVE CountTestsQ(_, _, _, _)
CountTestsQ(acc, tests, qlist, currentDate) ==
    IF tests = <<>> THEN acc
    ELSE CountTestsQ(CountTestQ(acc, Head(tests), qlist, currentDate),
                     Tail(tests), qlist, currentDate)

RECURSIVE CountSuitesQ(_, _, _, _)
CountSuitesQ(acc, suites, qlist, currentDate) ==
    IF suites = <<>> THEN acc
    ELSE CountSuitesQ(CountTestsQ(acc, Head(suites).Tests, qlist, currentDate),
                      Tail(suites), qlist, currentDate)

(* ParseTestsVerdict looking at FailCount alone *)
ParseTestsVerdict_FailOnly(st) ==
    IF st.FailCount > 0
    THEN Errorf("found %d failed tests and %d errors", st.FailCount, st.ErrorCount)
    ELSE NilErr

(* The verdict of ParseTests *)
ParseTestsVerdict(st) ==
    IF st.FailCount > 0 \/ st.ErrorCount > 0
    THEN Errorf("found %d failed tests and %d errors", st.FailCount, st.ErrorCount)
    ELSE NilErr

(* QuarantineVerdict looking at the non-quarantined failures alone *)
QuarantineVerdict_NoExpired(nonQ, expired) ==
    IF nonQ > 0
    THEN Errorf("found %d non-quarantined failed tests and %d expired tests", nonQ, expired)
    ELSE NilErr

(* The verdict of ParseTestsWithQuarantine *)
QuarantineVerdict(nonQ, expired) ==
    IF nonQ > 0 \/ expired > 0
    THEN Errorf("found %d non-quarantined failed tests and %d expired tests", nonQ, expired)
    ELSE NilErr

---------------------------------------------------------------------------
(* Inputs of a run *)

(* Quarantine lists of the runs that vary the reports: no entry, or one   *)
(* that is active, or expired since yesterday, or without dates, or one   *)
(* with dates followed by the one without.                                *)
FewEntries ==
    {Entry(Str("a.b"), Str("c"), DateStr(Today - TenDays), DateStr(Today + 1)),
     Entry(Str("a.b"), Str("c"), DateStr(Today - TenDays), DateStr(Today - 1)),
     Entry(Str("x"), Str("y"), NoDate, NoDate)}

FewLists ==
    {QList(ts) : ts \in SeqsUpTo(FewEntries, 1)} \cup
    {QList(<<e, Entry(Str("x"), Str("y"), NoDate, NoDate)>>) :
        e \in FewEntries \ {Entry(Str("x"), Str("y"), NoDate, NoDate)}}

AllLists == {NoQList} \cup {QList(ts) : ts \in SeqsUpTo(Entries, MaxEntries)}

(* The instant of a run that takes place on local day Today *)
Instant(localTick, zone) == Today * TicksPerDay + localTick - zone

ReportPaths == SeqsUpTo(PathPool, MaxPaths)
QuarantinePaths == SeqsUpTo({FileA}, 1)

(* Two successive calls over the same files are given the same specs *)
RerunPaths == {<<FileA>>, <<<<"*">>>>, <<<<"z">>, FileB>>, <<FileB, FileA>>}

PathsOf(sc) ==
    IF sc = "reports" THEN ReportPaths
    ELSE IF sc = "quarantine" THEN QuarantinePaths
    ELSE {callPaths}

ReportResults == IngestResults(MaxTests)
QuarantineResults == IngestResults(1)

(* A file read twice holds the second time what it held the first time *)
RerunResults == {r \in QuarantineResults : Len(r.suites) <= 1}

(* The reports of a run of the plugin: unreadable, or holding one test *)
ExecResults ==
    {[err |-> TRUE, suites |-> <<>>],
     [err |-> FALSE, suites |-> <<Suite(<<Test("a.b", "c", StatusFailed)>>)>>],
     [err |-> FALSE, suites |-> <<Suite(<<Test("x", "y", StatusPassed)>>)>>],
     [err |-> FALSE, suites |-> <<Suite(<<Test("x", "y", StatusError)>>)>>]}

(* The place of a file in a list that holds it once *)
IndexOf(file, list) == CHOOSE i \in 1..Len(list) : list[i] = file

ResultsOf(sc) ==
    IF sc = "reports" THEN ReportResults
    ELSE IF sc = "quarantine" THEN QuarantineResults
    ELSE IF sc = "exec" THEN ExecResults
    ELSE IF run = 2 THEN {disk[IndexOf(files[idx], first.files)]}
    ELSE RerunResults

CountStatus(tests, s) == Cardinality({i \in 1..Len(tests) : tests[i].Status = s})

RECURSIVE FailedOf(_)
FailedOf(tests) ==
    IF tests = <<>> THEN <<>>
    ELSE IF Head(tests).Status = StatusFailed
         THEN <<[Classname |-> Head(tests).Classname, Name |-> Head(tests).Name]>>
              \o FailedOf(Tail(tests))
         ELSE FailedOf(Tail(tests))

InitRun ==
    /\ pc = "call"
    /\ files = <<>>
    /\ idx = 1
    /\ stats = ZeroStats
    /\ nonQuarantinedFailures = 0
    /\ expiredTests = 0
    /\ err = NilErr
    /\ logged = {}
    /\ seen = [s \in AllStatuses |-> 0]
    /\ seenFailed = <<>>
    /\ ingested = <<>>

(* What a call over the files fs returned, with the clock and the two     *)
(* local counters it ended on                                             *)
Returned(fs, m, st, e, nonQ, expired, t) ==
    [files |-> fs, mode |-> m, stats |-> st, err |-> e,
     nonQuarantinedFailures |-> nonQ, expiredTests |-> expired, now |-> t]

NoReturn == Returned(<<>>, "", ZeroStats, NilErr, 0, 0, 0)

NoPlugin == [GlobPaths |-> <<>>, QuarantineFile |-> "", FailOnQuarantine |-> FALSE]

(* A call that Exec does not make *)
InitNoExec ==
    /\ plugin = NoPlugin
    /\ droneOutput = FALSE
    /\ output = <<>>
    /\ output0 = <<>>
    /\ exitCode = -1

(* A call that is not made a second time *)
InitNoRerun ==
    /\ callPaths = <<>>
    /\ run = 1
    /\ first = NoReturn
    /\ disk = <<>>

InitNoArg ==
    /\ arg = <<>>
    /\ res = <<>>

(* A direct call of an entry point, as the tests make it *)
InitDirect == InitNoExec /\ InitNoRerun /\ InitNoArg

(* Runs that vary the paths and the reports, at midday UTC *)
InitReports ==
    /\ scope = "reports"
    /\ \/ mode = "ParseTests" /\ quarantineList = NoQList
       \/ mode = "ParseTestsWithQuarantine" /\ quarantineList \in FewLists
    /\ tz = 0
    /\ now = Instant(TicksPerDay - 1, 0)
    /\ InitRun
    /\ InitDirect

(* Runs that vary the quarantine list, the time of day and the zone *)
InitQuarantine ==
    /\ scope = "quarantine"
    /\ mode = "ParseTestsWithQuarantine"
    /\ quarantineList \in AllLists
    /\ tz \in -MaxTz..MaxTz
    /\ \E localTick \in 0..(TicksPerDay - 1) : now = Instant(localTick, tz)
    /\ InitRun
    /\ InitDirect

RerunLists == {QList(ts) : ts \in SeqsUpTo(FewEntries, 1)}

(* Two successive calls over the same files, starting at midday UTC *)
InitRerun ==
    /\ scope = "rerun"
    /\ \/ mode = "ParseTests" /\ quarantineList = NoQList
       \/ mode = "ParseTestsWithQuarantine" /\ quarantineList \in RerunLists
    /\ tz = 0
    /\ now = Instant(TicksPerDay - 1, 0)
    /\ InitRun
    /\ InitNoExec
    /\ InitNoArg
    /\ callPaths \in RerunPaths
    /\ run = 1
    /\ first = NoReturn
    /\ disk = <<>>

(* A direct call of one of the helper functions, as the tests make it *)
InitHelper(fn) ==
    /\ scope = fn
    /\ mode = ""
    /\ quarantineList = NoQList
    /\ tz = 0
    /\ now = Instant(TicksPerDay - 1, 0)
    /\ InitRun
    /\ InitNoExec
    /\ InitNoRerun
    /\ res = <<>>

PathChars == {"a", ",", " "}

InitGetPaths == InitHelper("getPaths") /\ arg \in SeqsUpTo(PathChars, MaxLen)

InitGetFiles == InitHelper("getFiles") /\ arg \in ReportPaths

MaxItems == 3
Items == {FileA, FileB, <<"z">>}

InitUniqueItems == InitHelper("uniqueItems") /\ arg \in SeqsUpTo(Items, MaxItems)

TildeChars == {"~", "/", "\\", "a"}

(* An element of quarantine_tests that is not a mapping *)
NotAMap ==
    [ismap |-> FALSE, classname |-> NoStr, name |-> NoStr,
     start_date |-> NoDate, end_date |-> NoDate]

(* Entries for the direct calls of the matcher: well-formed ones, one     *)
(* whose classname and name join to the identifier of another, ones that  *)
(* lack a string classname or name, and one that is not a mapping.        *)
MatcherEntries ==
    {Entry(Str("a.b"), Str("c"), NoDate, NoDate),
     Entry(Str("a.b"), Str("c"), DateStr(Today - TenDays), DateStr(Today + 1)),
     Entry(Str("a.b"), Str("c"), DateStr(Today - TenDays), DateStr(Today - 1)),
     Entry(Str("a.b"), Str("c"), BadDate, DateStr(Today - 1)),
     Entry(Str("a.b"), Str("c"), DateStr(Today - TenDays), NoDate),
     Entry(Str("a"), Str("b.c"), NoDate, NoDate),
     Entry(Str("a.b"), Str("y"), NoDate, NoDate),
     Entry(NoStr, Str("c"), NoDate, NoDate),
     Entry(Str("a.b"), NoStr, DateStr(Today - TenDays), DateStr(Today - 1)),
     NotAMap}

MatcherLists == {NoQList} \cup {QList(ts) : ts \in SeqsUpTo(MatcherEntries, MaxEntries)}

(* The classname and name of the test the matcher is asked about *)
MatcherTests ==
    [Classname : {"a.b", "a", "x"}, Name : {"c", "b.c", "y"}]

InitMatcher(fn) ==
    /\ scope = fn
    /\ mode = ""
    /\ quarantineList \in MatcherLists
    /\ tz = 0
    /\ now = Instant(TicksPerDay - 1, 0)
    /\ InitRun
    /\ InitNoExec
    /\ InitNoRerun
    /\ res = <<>>
    /\ arg \in MatcherTests

InitIsQuarantined == InitMatcher("isQuarantined")

InitIsExpired == InitMatcher("isExpired")

InitExpandTilde ==
    /\ InitHelper("expandTilde")
    /\ arg \in {[path |-> q, home |-> h] :
                    q \in SeqsUpTo(TildeChars, MaxLen), h \in {Ok(HomeDir), Fail}}


---------------------------------------------------------------------------
(* ParseTests *)

Observe(r) ==
    /\ ingested' = Append(ingested, ~r.err)
    /\ disk' = IF scope = "rerun" /\ run = 1 THEN Append(disk, r) ELSE disk
    /\ IF r.err
       THEN UNCHANGED <<seen, seenFailed>>
       ELSE /\ seen' = [s \in AllStatuses |-> seen[s] + CountStatus(Flatten(r.suites), s)]
            /\ seenFailed' = seenFailed \o FailedOf(Flatten(r.suites))

(* ParseTestsBegin starting from the totals the previous call ended on *)
ParseTestsBegin_KeepsStats ==
    /\ pc = "call" /\ mode = "ParseTests"
    /\ \E paths \in PathsOf(scope) :
          /\ files' = getFiles(paths)
          /\ stats' = first.stats
          /\ IF Len(getFiles(paths)) = 0
             THEN /\ logged' = logged \cup {"could not find any files matching the provided report path"}
                  /\ err' = NilErr
                  /\ pc' = "done"
             ELSE /\ pc' = "loop"
                  /\ UNCHANGED <<logged, err>>
    /\ UNCHANGED <<scope, mode, quarantineList, now, tz, idx, nonQuarantinedFailures,
                   expiredTests, seen, seenFailed, ingested>>
    /\ UNCHANGED <<callerVars, disk>>

ParseTestsBegin ==
    /\ pc = "call" /\ mode = "ParseTests"
    /\ \E paths \in PathsOf(scope) :
          /\ files' = getFiles(paths)
          /\ stats' = ZeroStats
          /\ IF Len(getFiles(paths)) = 0
             THEN /\ logged' = logged \cup {"could not find any files matching the provided report path"}
                  /\ err' = NilErr
                  /\ pc' = "done"
             ELSE /\ pc' = "loop"
                  /\ UNCHANGED <<logged, err>>
    /\ UNCHANGED <<scope, mode, quarantineList, now, tz, idx, nonQuarantinedFailures,
                   expiredTests, seen, seenFailed, ingested>>
    /\ UNCHANGED <<callerVars, disk>>

(* ParseTestsFile leaving the loop at the first file that does not parse *)
ParseTestsFile_AbortOnError ==
    /\ pc = "loop" /\ mode = "ParseTests" /\ idx <= Len(files)
    /\ \E r \in ResultsOf(scope) :
          /\ IF r.err
             THEN /\ logged' = logged \cup {"could not parse file"}
                  /\ idx' = Len(files) + 1
                  /\ UNCHANGED stats
             ELSE /\ stats' = AddStats(stats, CountSuites(ZeroStats, r.suites))
                  /\ idx' = idx + 1
                  /\ UNCHANGED logged
          /\ Observe(r)
    /\ UNCHANGED <<scope, mode, quarantineList, now, tz, pc, files,
                   nonQuarantinedFailures, expiredTests, err>>
    /\ UNCHANGED callerVars

ParseTestsFile ==
    /\ pc = "loop" /\ mode = "ParseTests" /\ idx <= Len(files)
    /\ \E r \in ResultsOf(scope) :
          /\ IF r.err
             THEN /\ logged' = logged \cup {"could not parse file"}
                  /\ UNCHANGED stats
             ELSE /\ stats' = AddStats(stats, CountSuites(ZeroStats, r.suites))
                  /\ UNCHANGED logged
          /\ Observe(r)
    /\ idx' = idx + 1
    /\ UNCHANGED <<scope, mode, quarantineList, now, tz, pc, files,
                   nonQuarantinedFailures, expiredTests, err>>
    /\ UNCHANGED callerVars

ParseTestsReturn ==
    /\ pc = "loop" /\ mode = "ParseTests" /\ idx > Len(files)
    /\ err' = ParseTestsVerdict(stats)
    /\ pc' = "done"
    /\ UNCHANGED <<scope, mode, quarantineList, now, tz, files, idx, stats,
                   nonQuarantinedFailures, expiredTests, logged, seen, seenFailed, ingested>>
    /\ UNCHANGED <<callerVars, disk>>

---------------------------------------------------------------------------
(* ParseTestsWithQuarantine *)

(* ParseTestsWithQuarantineBegin returning an error for an empty file list *)
ParseTestsWithQuarantineBegin_ErrOnEmpty ==
    /\ pc = "call" /\ mode = "ParseTestsWithQuarantine"
    /\ \E paths \in PathsOf(scope) :
          /\ files' = getFiles(paths)
          /\ stats' = ZeroStats
          /\ nonQuarantinedFailures' = 0
          /\ expiredTests' = 0
          /\ IF Len(getFiles(paths)) = 0
             THEN /\ logged' = logged \cup {"could not find any files matching the provided report path"}
                  /\ err' = Errorf("could not find any files matching the provided report path", 0, 0)
                  /\ pc' = "done"
             ELSE /\ pc' = "loop"
                  /\ UNCHANGED <<logged, err>>
    /\ UNCHANGED <<scope, mode, quarantineList, now, tz, idx, seen, seenFailed, ingested>>
    /\ UNCHANGED <<callerVars, disk>>

ParseTestsWithQuarantineBegin ==
    /\ pc = "call" /\ mode = "ParseTestsWithQuarantine"
    /\ \E paths \in PathsOf(scope) :
          /\ files' = getFiles(paths)
          /\ stats' = ZeroStats
          /\ nonQuarantinedFailures' = 0
          /\ expiredTests' = 0
          /\ IF Len(getFiles(paths)) = 0
             THEN /\ logged' = logged \cup {"could not find any files matching the provided report path"}
                  /\ err' = NilErr
                  /\ pc' = "done"
             ELSE /\ pc' = "loop"
                  /\ UNCHANGED <<logged, err>>
    /\ UNCHANGED <<scope, mode, quarantineList, now, tz, idx, seen, seenFailed, ingested>>
    /\ UNCHANGED <<callerVars, disk>>

(* ParseTestsWithQuarantineFile, were a file that does not parse counted as an error *)
ParseTestsWithQuarantineFile_CountsUnparsed ==
    /\ pc = "loop" /\ mode = "ParseTestsWithQuarantine" /\ idx <= Len(files)
    /\ \E r \in ResultsOf(scope) :
          /\ IF r.err
             THEN /\ logged' = logged \cup {"could not parse file"}
                  /\ stats' = [stats EXCEPT !.ErrorCount = @ + 1]
                  /\ UNCHANGED <<nonQuarantinedFailures, expiredTests>>
             ELSE LET acc == CountSuitesQ(
                                QAcc(ZeroStats, nonQuarantinedFailures, expiredTests,
                                     Lists(stats)),
                                r.suites, quarantineList, now)
                  IN /\ stats' = WithLists(AddStats(stats, acc.fileStats), acc.lists)
                     /\ nonQuarantinedFailures' = acc.nonQuarantinedFailures
                     /\ expiredTests' = acc.expiredTests
                     /\ UNCHANGED logged
          /\ Observe(r)
    /\ idx' = idx + 1
    /\ UNCHANGED <<scope, mode, quarantineList, now, tz, pc, files, err>>
    /\ UNCHANGED callerVars

ParseTestsWithQuarantineFile ==
    /\ pc = "loop" /\ mode = "ParseTestsWithQuarantine" /\ idx <= Len(files)
    /\ \E r \in ResultsOf(scope) :
          /\ IF r.err
             THEN /\ logged' = logged \cup {"could not parse file"}
                  /\ UNCHANGED <<stats, nonQuarantinedFailures, expiredTests>>
             ELSE LET acc == CountSuitesQ(
                                QAcc(ZeroStats, nonQuarantinedFailures, expiredTests,
                                     Lists(stats)),
                                r.suites, quarantineList, now)
                  IN /\ stats' = WithLists(AddStats(stats, acc.fileStats), acc.lists)
                     /\ nonQuarantinedFailures' = acc.nonQuarantinedFailures
                     /\ expiredTests' = acc.expiredTests
                     /\ UNCHANGED logged
          /\ Observe(r)
    /\ idx' = idx + 1
    /\ UNCHANGED <<scope, mode, quarantineList, now, tz, pc, files, err>>
    /\ UNCHANGED callerVars

(* ParseTestsWithQuarantineReturn failing on error outcomes as ParseTests does *)
ParseTestsWithQuarantineReturn_ErrorsFail ==
    /\ pc = "loop" /\ mode = "ParseTestsWithQuarantine" /\ idx > Len(files)
    /\ err' = IF stats.ErrorCount > 0
              THEN Errorf("found %d failed tests and %d errors", stats.FailCount, stats.ErrorCount)
              ELSE QuarantineVerdict(nonQuarantinedFailures, expiredTests)
    /\ pc' = "done"
    /\ UNCHANGED <<scope, mode, quarantineList, now, tz, files, idx, stats,
                   nonQuarantinedFailures, expiredTests, logged, seen, seenFailed, ingested>>
    /\ UNCHANGED <<callerVars, disk>>

ParseTestsWithQuarantineReturn ==
    /\ pc = "loop" /\ mode = "ParseTestsWithQuarantine" /\ idx > Len(files)
    /\ err' = QuarantineVerdict(nonQuarantinedFailures, expiredTests)
    /\ pc' = "done"
    /\ UNCHANGED <<scope, mode, quarantineList, now, tz, files, idx, stats,
                   nonQuarantinedFailures, expiredTests, logged, seen, seenFailed, ingested>>
    /\ UNCHANGED <<callerVars, disk>>

(* Plugin.Exec *)

(* Sources of the quarantine document: none configured, a local file, a   *)
(* local file that does not exist, a URL.                                 *)
URLSources == {"http://host/quarantine.yaml"}
QuarantineSources == {"", "quarantine.yaml", "missing.yaml"} \cup URLSources

isURL(source) == source \in URLSources

(* The local file quarantines a.b.c until tomorrow, the document behind   *)
(* the URL quarantined it until yesterday.                                *)
LoadYAML(source) ==
    IF isURL(source)
    THEN [err |-> FALSE,
          doc |-> QList(<<Entry(Str("a.b"), Str("c"),
                                DateStr(Today - TenDays), DateStr(Today - 1))>>)]
    ELSE IF source = "quarantine.yaml"
    THEN [err |-> FALSE,
          doc |-> QList(<<Entry(Str("a.b"), Str("c"),
                                DateStr(Today - TenDays), DateStr(Today + 1))>>)]
    ELSE [err |-> TRUE, doc |-> NoQList]

GlobPool == {<<>>, <<"a">>, <<"a", ",", " ", "b">>, <<"z">>}

OutputKeys == {"TOTAL_TESTS", "FAILED_TESTS", "PASSED_TESTS", "SKIPPED_TESTS", "ERROR_TESTS"}

(* statsMap with the values of two keys exchanged *)
statsMap_Swapped(st) ==
    [key \in OutputKeys |->
        CASE key = "TOTAL_TESTS" -> st.TestCount
          [] key = "FAILED_TESTS" -> st.PassCount
          [] key = "PASSED_TESTS" -> st.FailCount
          [] key = "SKIPPED_TESTS" -> st.SkippedCount
          [] key = "ERROR_TESTS" -> st.ErrorCount]

statsMap(st) ==
    [key \in OutputKeys |->
        CASE key = "TOTAL_TESTS" -> st.TestCount
          [] key = "FAILED_TESTS" -> st.FailCount
          [] key = "PASSED_TESTS" -> st.PassCount
          [] key = "SKIPPED_TESTS" -> st.SkippedCount
          [] key = "ERROR_TESTS" -> st.ErrorCount]

(* The orders in which a range over statsMap may visit its keys *)
KeyOrders ==
    {order \in [1..Cardinality(OutputKeys) -> OutputKeys] :
        \A i, j \in 1..Cardinality(OutputKeys) : i # j => order[i] # order[j]}

(* A line KEY=value of the output file *)
Line(key, value) == <<key, value>>

(* WriteEnvToFile: the line is appended when the file can be opened *)
WriteEnvToFile(out, key, value, canOpen) ==
    IF canOpen THEN Append(out, Line(key, value)) ELSE out

RECURSIVE writeTestStatsFrom(_, _, _, _, _)
writeTestStatsFrom(out, st, order, k, canOpen) ==
    IF k > Len(order) THEN out
    ELSE writeTestStatsFrom(WriteEnvToFile(out, order[k], statsMap(st)[order[k]], canOpen),
                            st, order, k + 1, canOpen)

writeTestStats(out, st, order, canOpen) == writeTestStatsFrom(out, st, order, 1, canOpen)

InitExec ==
    /\ scope = "exec"
    /\ mode = ""
    /\ quarantineList = NoQList
    /\ tz = 0
    /\ now = Instant(TicksPerDay - 1, 0)
    /\ pc = "exec"
    /\ files = <<>>
    /\ idx = 1
    /\ stats = ZeroStats
    /\ nonQuarantinedFailures = 0
    /\ expiredTests = 0
    /\ err = NilErr
    /\ logged = {}
    /\ seen = [s \in AllStatuses |-> 0]
    /\ seenFailed = <<>>
    /\ ingested = <<>>
    /\ plugin \in [GlobPaths : GlobPool, QuarantineFile : QuarantineSources,
                    FailOnQuarantine : BOOLEAN]
    /\ droneOutput \in BOOLEAN
    /\ output \in {<<>>, <<Line("OLD", 1)>>}
    /\ output0 = output
    /\ exitCode = -1
    /\ InitNoRerun
    /\ InitNoArg

(* Exec up to the parsing of test_globs *)
ExecStart ==
    /\ scope = "exec" /\ pc = "exec"
    /\ IF plugin.GlobPaths = <<>>
       THEN /\ logged' = logged \cup {"test_globs is not set"}
            /\ exitCode' = 1
            /\ pc' = "exited"
            /\ UNCHANGED callPaths
       ELSE /\ callPaths' = getPaths(plugin.GlobPaths)
            /\ pc' = "config"
            /\ UNCHANGED <<logged, exitCode>>
    /\ UNCHANGED <<scope, mode, quarantineList, now, tz, files, idx, stats,
                   nonQuarantinedFailures, expiredTests, err, seen, seenFailed, ingested,
                   plugin, droneOutput, output, output0, run, first, disk, arg, res>>

(* ExecConfig going on with an empty quarantine list when loading fails *)
ExecConfig_IgnoreLoadError ==
    /\ scope = "exec" /\ pc = "config"
    /\ IF plugin.FailOnQuarantine
       THEN IF plugin.QuarantineFile = ""
            THEN /\ logged' = logged \cup {"quarantine_file is not set"}
                 /\ exitCode' = 1
                 /\ pc' = "exited"
                 /\ UNCHANGED <<mode, quarantineList>>
            ELSE /\ quarantineList' = LoadYAML(plugin.QuarantineFile).doc
                 /\ mode' = "ParseTestsWithQuarantine"
                 /\ pc' = "call"
                 /\ UNCHANGED <<logged, exitCode>>
       ELSE /\ mode' = "ParseTests"
            /\ pc' = "call"
            /\ UNCHANGED <<quarantineList, logged, exitCode>>
    /\ UNCHANGED <<scope, now, tz, files, idx, stats, nonQuarantinedFailures,
                   expiredTests, err, seen, seenFailed, ingested, plugin, droneOutput,
                   output, output0, callPaths, run, first, disk, arg, res>>

(* Exec from the choice of the mode to the call of the entry point *)
ExecConfig ==
    /\ scope = "exec" /\ pc = "config"
    /\ IF plugin.FailOnQuarantine
       THEN IF plugin.QuarantineFile = ""
            THEN /\ logged' = logged \cup {"quarantine_file is not set"}
                 /\ exitCode' = 1
                 /\ pc' = "exited"
                 /\ UNCHANGED <<mode, quarantineList>>
            ELSE IF LoadYAML(plugin.QuarantineFile).err
            THEN /\ logged' = logged \cup {"Error loading quarantine file"}
                 /\ exitCode' = 1
                 /\ pc' = "exited"
                 /\ UNCHANGED <<mode, quarantineList>>
            ELSE /\ quarantineList' = LoadYAML(plugin.QuarantineFile).doc
                 /\ mode' = "ParseTestsWithQuarantine"
                 /\ pc' = "call"
                 /\ UNCHANGED <<logged, exitCode>>
       ELSE /\ mode' = "ParseTests"
            /\ pc' = "call"
            /\ UNCHANGED <<quarantineList, logged, exitCode>>
    /\ UNCHANGED <<scope, now, tz, files, idx, stats, nonQuarantinedFailures,
                   expiredTests, err, seen, seenFailed, ingested, plugin, droneOutput,
                   output, output0, callPaths, run, first, disk, arg, res>>

(* ExecWriteTestStats exiting at once when the entry point returned an error *)
ExecWriteTestStats_ExitOnError ==
    /\ scope = "exec" /\ pc = "done"
    /\ IF ~err.nil
       THEN /\ exitCode' = 1
            /\ pc' = "exited"
            /\ UNCHANGED <<output, logged>>
       ELSE /\ \E order \in KeyOrders :
                  output' = writeTestStats(output, stats, order, droneOutput)
            /\ logged' = IF droneOutput THEN logged
                          ELSE logged \cup {"Failed to open output file"}
            /\ pc' = "written"
            /\ UNCHANGED exitCode
    /\ UNCHANGED <<scope, mode, quarantineList, now, tz, files, idx, stats,
                   nonQuarantinedFailures, expiredTests, err, seen, seenFailed, ingested,
                   plugin, droneOutput, output0, callPaths, run, first, disk,
                   arg, res>>

(* Exec after the entry point returned: the outputs are written, in the   *)
(* order in which the range over the map visits the keys.                 *)
ExecWriteTestStats ==
    /\ scope = "exec" /\ pc = "done"
    /\ \E order \in KeyOrders :
          output' = writeTestStats(output, stats, order, droneOutput)
    /\ logged' = IF droneOutput THEN logged
                  ELSE logged \cup {"Failed to open output file"}
    /\ pc' = "written"
    /\ UNCHANGED <<scope, mode, quarantineList, now, tz, files, idx, stats,
                   nonQuarantinedFailures, expiredTests, err, seen, seenFailed, ingested,
                   plugin, droneOutput, output0, exitCode, callPaths, run, first, disk,
                   arg, res>>

(* ExecExit leaving with code 0 whatever was returned *)
ExecExit_AlwaysZero ==
    /\ scope = "exec" /\ pc = "written"
    /\ exitCode' = 0
    /\ pc' = "exited"
    /\ UNCHANGED <<scope, mode, quarantineList, now, tz, files, idx, stats,
                   nonQuarantinedFailures, expiredTests, err, logged, seen, seenFailed,
                   ingested, plugin, droneOutput, output, output0, callPaths, run, first,
                   disk, arg, res>>

(* Exec handling the returned error: os.Exit(1), or return nil and the    *)
(* process ends with code 0.                                              *)
ExecExit ==
    /\ scope = "exec" /\ pc = "written"
    /\ exitCode' = IF err.nil THEN 0 ELSE 1
    /\ pc' = "exited"
    /\ UNCHANGED <<scope, mode, quarantineList, now, tz, files, idx, stats,
                   nonQuarantinedFailures, expiredTests, err, logged, seen, seenFailed,
                   ingested, plugin, droneOutput, output, output0, callPaths, run, first,
                   disk, arg, res>>

---------------------------------------------------------------------------
(* Direct calls of the helper functions *)

GetPathsCall ==
    /\ scope = "getPaths" /\ pc = "call"
    /\ res' = getPaths(arg)
    /\ pc' = "returned"
    /\ UNCHANGED <<scope, mode, quarantineList, now, tz, files, idx, stats,
                   nonQuarantinedFailures, expiredTests, err, logged, seen, seenFailed,
                   ingested, plugin, droneOutput, output, output0, exitCode, callPaths,
                   run, first, disk, arg>>

GetFilesCall ==
    /\ scope = "getFiles" /\ pc = "call"
    /\ res' = getFiles(arg)
    /\ pc' = "returned"
    /\ UNCHANGED <<scope, mode, quarantineList, now, tz, files, idx, stats,
                   nonQuarantinedFailures, expiredTests, err, logged, seen, seenFailed,
                   ingested, plugin, droneOutput, output, output0, exitCode, callPaths,
                   run, first, disk, arg>>

UniqueItemsCall ==
    /\ scope = "uniqueItems" /\ pc = "call"
    /\ res' = uniqueItems(arg)
    /\ pc' = "returned"
    /\ UNCHANGED <<scope, mode, quarantineList, now, tz, files, idx, stats,
                   nonQuarantinedFailures, expiredTests, err, logged, seen, seenFailed,
                   ingested, plugin, droneOutput, output, output0, exitCode, callPaths,
                   run, first, disk, arg>>

ExpandTildeCall ==
    /\ scope = "expandTilde" /\ pc = "call"
    /\ res' = expandTildeIn(arg.path, arg.home)
    /\ pc' = "returned"
    /\ UNCHANGED <<scope, mode, quarantineList, now, tz, files, idx, stats,
                   nonQuarantinedFailures, expiredTests, err, logged, seen, seenFailed,
                   ingested, plugin, droneOutput, output, output0, exitCode, callPaths,
                   run, first, disk, arg>>

(* The identifier of a test is made and looked up in the quarantine list *)
IsQuarantinedCall ==
    /\ scope = "isQuarantined" /\ pc = "call"
    /\ res' = isQuarantined(Identifier(arg.Classname, arg.Name), quarantineList)
    /\ pc' = "returned"
    /\ UNCHANGED <<scope, mode, quarantineList, now, tz, files, idx, stats,
                   nonQuarantinedFailures, expiredTests, err, logged, seen, seenFailed,
                   ingested, plugin, droneOutput, output, output0, exitCode, callPaths,
                   run, first, disk, arg>>

IsExpiredCall ==
    /\ scope = "isExpired" /\ pc = "call"
    /\ res' = isExpired(Identifier(arg.Classname, arg.Name), quarantineList, now)
    /\ pc' = "returned"
    /\ UNCHANGED <<scope, mode, quarantineList, now, tz, files, idx, stats,
                   nonQuarantinedFailures, expiredTests, err, logged, seen, seenFailed,
                   ingested, plugin, droneOutput, output, output0, exitCode, callPaths,
                   run, first, disk, arg>>

(* Two lists of distinct files that hold the same files, in any order *)
SameFiles(fs, gs) ==
    /\ Len(fs) = Len(gs)
    /\ {fs[i] : i \in 1..Len(fs)} = {gs[i] : i \in 1..Len(gs)}

(* The caller calls an entry point a second time with specs that resolve  *)
(* to the same files, in the same or another order, and the same          *)
(* quarantine list, at the same instant or up to a day later: every local *)
(* of the first call is gone, the files are as they were.                 *)
Rerun ==
    /\ scope = "rerun" /\ pc = "done" /\ run = 1
    /\ run' = 2
    /\ first' = Returned(files, mode, stats, err, nonQuarantinedFailures, expiredTests, now)
    /\ callPaths' \in {p \in RerunPaths : SameFiles(getFiles(p), files)}
    /\ mode' \in {"ParseTests", "ParseTestsWithQuarantine"}
    /\ \E d \in 0..TicksPerDay : now' = now + d
    /\ pc' = "call"
    /\ idx' = 1
    /\ stats' = ZeroStats
    /\ nonQuarantinedFailures' = 0
    /\ expiredTests' = 0
    /\ err' = NilErr
    /\ logged' = {}
    /\ seen' = [s \in AllStatuses |-> 0]
    /\ seenFailed' = <<>>
    /\ ingested' = <<>>
    /\ UNCHANGED <<scope, quarantineList, tz, files, plugin, droneOutput, output, output0, exitCode,
                   disk, arg, res>>

Init ==
    \/ InitReports
    \/ InitQuarantine
    \/ InitRerun
    \/ InitGetPaths
    \/ InitGetFiles
    \/ InitUniqueItems
    \/ InitExpandTilde
    \/ InitIsQuarantined
    \/ InitIsExpired
    \/ InitExec

Next ==
    \/ ExecStart
    \/ ExecConfig
    \/ ExecWriteTestStats
    \/ ExecExit
    \/ GetPathsCall
    \/ GetFilesCall
    \/ UniqueItemsCall
    \/ ExpandTildeCall
    \/ IsQuarantinedCall
    \/ IsExpiredCall
    \/ Rerun
    \/ ParseTestsBegin
    \/ ParseTestsFile
    \/ ParseTestsReturn
    \/ ParseTestsWithQuarantineBegin
    \/ ParseTestsWithQuarantineFile
    \/ ParseTestsWithQuarantineReturn

Spec == Init /\ [][Next]_vars

---------------------------------------------------------------------------
(* Properties *)

Done == pc = "done"

CounterSum(st) == st.PassCount + st.FailCount + st.SkippedCount + st.ErrorCount

(* C1: as long as every test of the files read so far has one of the four *)
(* outcomes passed, failed, skipped, error, the running total - and so    *)
(* the returned total - has TestCount = PassCount + FailCount +           *)
(* SkippedCount + ErrorCount, in both entry points.                       *)
C1_CountersAddUp ==
    seen[StatusOther] = 0 => stats.TestCount = CounterSum(stats)

C1_Witness ==
    /\ Done
    /\ seen[StatusOther] = 0
    /\ Len(ingested) = 2
    /\ stats.PassCount > 0 /\ stats.FailCount > 0
    /\ stats.SkippedCount > 0 /\ stats.ErrorCount > 0

(* C2: ParseTests returns a non-nil error exactly when the aggregated     *)
(* FailCount or ErrorCount is positive, and that error carries the two    *)
(* aggregated counts.                                                     *)
C2_PlainVerdict ==
    (Done /\ mode = "ParseTests") =>
        /\ ~err.nil <=> (stats.FailCount > 0 \/ stats.ErrorCount > 0)
        /\ ~err.nil => (err.a = stats.FailCount /\ err.b = stats.ErrorCount)
        /\ stats.FailCount = seen[StatusFailed]
        /\ stats.ErrorCount = seen[StatusError]

C2_Witness ==
    /\ Done /\ mode = "ParseTests"
    /\ ~err.nil
    /\ stats.FailCount = 0 /\ stats.ErrorCount > 0 /\ stats.PassCount > 0

(* The failed tests read so far, by what the matcher says of them now *)
IdOf(t) == Identifier(t.Classname, t.Name)

SeenNotQuarantined ==
    {i \in 1..Len(seenFailed) : ~isQuarantined(IdOf(seenFailed[i]), quarantineList)}

SeenExpired ==
    {i \in 1..Len(seenFailed) :
        /\ isQuarantined(IdOf(seenFailed[i]), quarantineList)
        /\ isExpired(IdOf(seenFailed[i]), quarantineList, now)}

SeenActive ==
    {i \in 1..Len(seenFailed) :
        /\ isQuarantined(IdOf(seenFailed[i]), quarantineList)
        /\ ~isExpired(IdOf(seenFailed[i]), quarantineList, now)}

InSeq(x, sq) == \E i \in 1..Len(sq) : sq[i] = x

(* C3: ParseTestsWithQuarantine returns a non-nil error exactly when some *)
(* failed test read is not quarantined or is quarantined with an expired  *)
(* window; the error carries the sizes of the two buckets; a run whose    *)
(* failures are all actively quarantined returns nil.                     *)
C3_QuarantineVerdict ==
    (Done /\ mode = "ParseTestsWithQuarantine") =>
        /\ ~err.nil <=> (SeenNotQuarantined # {} \/ SeenExpired # {})
        /\ ~err.nil => /\ err.a = Cardinality(SeenNotQuarantined)
                       /\ err.b = Cardinality(SeenExpired)
        /\ (SeenActive = 1..Len(seenFailed)) => err.nil

C3_Witness ==
    /\ Done /\ mode = "ParseTestsWithQuarantine"
    /\ ~err.nil /\ err.a > 0 /\ err.b > 0
    /\ SeenNotQuarantined # {} /\ SeenExpired # {}

LocalToday == LocalDay(now, tz)

(* 00:00 UTC of a calendar day *)
MidnightUTC(day) == day * TicksPerDay

EntryId(e) == Identifier(e.classname.s, e.name.s)

(* The entries of the list that alone carry their identifier and have two *)
(* parseable dates                                                        *)
DatedEntries ==
    IF ~quarantineList.ok THEN {}
    ELSE {k \in 1..Len(quarantineList.tests) :
            LET e == quarantineList.tests[k] IN
            /\ e.ismap /\ e.classname.ok /\ e.name.ok
            /\ e.start_date.ok /\ e.start_date.valid
            /\ e.end_date.ok /\ e.end_date.valid
            /\ \A j \in 1..Len(quarantineList.tests) :
                  (/\ quarantineList.tests[j].classname.ok
                   /\ quarantineList.tests[j].name.ok
                   /\ EntryId(quarantineList.tests[j]) = EntryId(e)) => j = k}

EntryAt(k) == quarantineList.tests[k]

SeenFailedId(id) == \E i \in 1..Len(seenFailed) : IdOf(seenFailed[i]) = id

(* C5, as claimed: an entry whose end_date is today's date is not expired *)
(* at any time of day, and a failed test it matches is treated as         *)
(* actively quarantined.  Stated of the runs whose local zone is UTC.     *)
C5_Original ==
    \A k \in DatedEntries :
        (/\ Done /\ mode = "ParseTestsWithQuarantine" /\ tz = 0
         /\ SeenFailedId(EntryId(EntryAt(k)))
         /\ EntryAt(k).end_date.day = LocalToday
         /\ EntryAt(k).start_date.day <= LocalToday) =>
            /\ ~isExpired(EntryId(EntryAt(k)), quarantineList, now)
            /\ expiredTests = 0
            /\ ~InSeq(EntryId(EntryAt(k)), stats.ExpiredTestsList)

(* C5, amended: an entry whose end_date is today's date is expired at     *)
(* every instant later than 00:00 UTC of that date (or earlier than 00:00 *)
(* UTC of its start_date) and at no other; a failed test matched by it    *)
(* after that instant is counted as expired and the verdict is fail.      *)
C5_EndsTodayExpiresAtMidnightUTC ==
    \A k \in DatedEntries :
        EntryAt(k).end_date.day = LocalToday =>
            /\ isExpired(EntryId(EntryAt(k)), quarantineList, now)
                  <=> \/ now > MidnightUTC(LocalToday)
                      \/ now < MidnightUTC(EntryAt(k).start_date.day)
            /\ (/\ mode = "ParseTestsWithQuarantine"
                /\ SeenFailedId(EntryId(EntryAt(k)))
                /\ now > MidnightUTC(LocalToday)) =>
                    /\ expiredTests > 0
                    /\ Done => ~err.nil

C5_Witness ==
    /\ Done /\ mode = "ParseTestsWithQuarantine"
    /\ tz = 0
    /\ \E k \in DatedEntries :
          /\ EntryAt(k).end_date.day = LocalToday
          /\ EntryAt(k).start_date.day < LocalToday
          /\ SeenFailedId(EntryId(EntryAt(k)))
    /\ now > MidnightUTC(LocalToday)
    /\ expiredTests = 1 /\ ~err.nil

(* C6, as claimed: with one failed test, matched by an entry whose        *)
(* start_date is ten days ago and whose end_date is today's date, the run *)
(* returns an error, ExpiredTestsList holds exactly that identifier and   *)
(* QuarantinedFailuresList is empty.                                      *)
C6_Original ==
    (/\ Done /\ mode = "ParseTestsWithQuarantine"
     /\ Len(seenFailed) = 1
     /\ quarantineList =
           QList(<<Entry(Str(seenFailed[1].Classname), Str(seenFailed[1].Name),
                         DateStr(LocalToday - TenDays), DateStr(LocalToday))>>)) =>
        /\ ~err.nil
        /\ expiredTests = 1
        /\ stats.ExpiredTestsList = <<IdOf(seenFailed[1])>>
        /\ stats.QuarantinedFailuresList = <<>>

(* C7, as claimed, for an entry with two parseable dates, start before    *)
(* end: isExpired is true when today's date is before start_date or at    *)
(* least a day after end_date, false when today's date is start_date or   *)
(* strictly between the two; a run whose one failed test the entry        *)
(* matches fails in the first case and passes in the second.              *)
C7_Original ==
    \A k \in DatedEntries :
        LET e == EntryAt(k)
            d == LocalToday
            out == d < e.start_date.day \/ d >= e.end_date.day + 1
            in == d = e.start_date.day \/ (e.start_date.day < d /\ d < e.end_date.day)
        IN (/\ Done /\ mode = "ParseTestsWithQuarantine"
            /\ Len(seenFailed) = 1 /\ IdOf(seenFailed[1]) = EntryId(e)
            /\ e.start_date.day < e.end_date.day) =>
              /\ out => (isExpired(EntryId(e), quarantineList, now) /\ ~err.nil)
              /\ in => (~isExpired(EntryId(e), quarantineList, now) /\ err.nil)

NoFilesMessage == "could not find any files matching the provided report path"

C9_Original ==
    (Done /\ mode = "ParseTests" /\ files = <<>>) =>
        /\ ~err.nil
        /\ err.msg = NoFilesMessage
        /\ stats.TestCount = 0

SeenTotal ==
    seen[StatusPassed] + seen[StatusFailed] + seen[StatusSkipped]
        + seen[StatusError] + seen[StatusOther]

(* C10: the totals are at every point the sums over the files that parsed *)
(* of all their tests, a file that does not parse adds nothing, and the   *)
(* loop goes on after it: every file before idx has been read, and at     *)
(* return every file of the list has.                                     *)
C10_WholeFilesOnly ==
    /\ stats.TestCount = SeenTotal
    /\ stats.PassCount = seen[StatusPassed]
    /\ stats.FailCount = seen[StatusFailed]
    /\ stats.SkippedCount = seen[StatusSkipped]
    /\ stats.ErrorCount = seen[StatusError]
    /\ Len(ingested) = idx - 1
    /\ Done => Len(ingested) = Len(files)

C10_Witness ==
    /\ Done
    /\ ingested = <<FALSE, TRUE>>
    /\ stats.TestCount = MaxTests
    /\ stats.FailCount > 0

(* C11, as claimed: a quarantine-mode run over files holding a test with  *)
(* outcome error returns a non-nil error, whatever the quarantine list.   *)
C11_Original ==
    (Done /\ mode = "ParseTestsWithQuarantine" /\ seen[StatusError] > 0) => ~err.nil

(* C11, amended: in quarantine mode a test with outcome error is counted  *)
(* in ErrorCount and in neither of the two counters the verdict looks at, *)
(* so a run that read such tests fails exactly when some failed test is   *)
(* not quarantined or is quarantined with an expired window.              *)
C11_ErrorOutcomeOnlyCounted ==
    (mode = "ParseTestsWithQuarantine" /\ seen[StatusError] > 0) =>
        /\ stats.ErrorCount = seen[StatusError]
        /\ nonQuarantinedFailures = Cardinality(SeenNotQuarantined)
        /\ nonQuarantinedFailures + expiredTests <= stats.FailCount
        /\ Done => (err.nil <=> (SeenNotQuarantined = {} /\ SeenExpired = {}))

C11_Witness ==
    /\ Done /\ mode = "ParseTestsWithQuarantine"
    /\ seen[StatusError] > 0 /\ stats.ErrorCount > 0
    /\ stats.FailCount = 0
    /\ err.nil

(* C12: a quarantine-mode run with ErrorCount > 0 and no failed test that *)
(* is not quarantined or expired returns nil, and ParseTests called next  *)
(* over the same files counts the same errors and returns an error.       *)
C12_ErrorsDoNotFailQuarantineMode ==
    /\ (/\ Done /\ mode = "ParseTestsWithQuarantine" /\ stats.ErrorCount > 0
        /\ SeenNotQuarantined = {} /\ SeenExpired = {}) => err.nil
    /\ (/\ Done /\ run = 2 /\ mode = "ParseTests"
        /\ first.mode = "ParseTestsWithQuarantine"
        /\ first.stats.ErrorCount > 0
        /\ first.nonQuarantinedFailures = 0 /\ first.expiredTests = 0) =>
            /\ first.err.nil
            /\ stats.ErrorCount = first.stats.ErrorCount
            /\ ~err.nil

C12_Witness ==
    /\ Done /\ run = 2 /\ mode = "ParseTests"
    /\ first.mode = "ParseTestsWithQuarantine"
    /\ first.stats.ErrorCount > 0 /\ first.stats.FailCount > 0
    /\ first.err.nil
    /\ ~err.nil

(* C13, as claimed: getPaths returns no empty segment and no segment that *)
(* begins or ends with whitespace, and nothing for the empty input.       *)
C13_Original ==
    (scope = "getPaths" /\ pc = "returned") =>
        /\ \A i \in 1..Len(res) :
              /\ res[i] # <<>>
              /\ Head(res[i]) \notin Whitespace
              /\ res[i][Len(res[i])] \notin Whitespace
        /\ arg = <<>> => res = <<>>

Returns(fn) == scope = fn /\ pc = "returned"

FirstIndex(x, sq) == CHOOSE i \in 1..Len(sq) : sq[i] = x /\ \A j \in 1..(i - 1) : sq[j] # x

(* out holds each distinct item of items once, in the order in which the  *)
(* items first occur                                                      *)
IsFirstSeen(out, items) ==
    /\ \A i, j \in 1..Len(out) : i # j => out[i] # out[j]
    /\ {out[i] : i \in 1..Len(out)} = {items[i] : i \in 1..Len(items)}
    /\ \A i, j \in 1..Len(out) : i < j => FirstIndex(out[i], items) < FirstIndex(out[j], items)

SpecFails(p) == expandTilde(p).err \/ Glob(expandTilde(p).val).err

(* What one spec matches on disk, nothing when it fails *)
MatchesOf(p) == IF SpecFails(p) THEN <<>> ELSE Glob(expandTilde(p).val).val

RECURSIVE AllMatches(_)
AllMatches(specs) ==
    IF specs = <<>> THEN <<>> ELSE MatchesOf(Head(specs)) \o AllMatches(Tail(specs))

(* C14: getFiles returns no path twice, returns every path matched by a   *)
(* spec that expanded, and keeps the paths in the order of their first    *)
(* occurrence in the concatenated matches; uniqueItems returns each       *)
(* distinct item of its argument once, in first-seen order.               *)
C14_NoDuplicateFirstSeen ==
    /\ Returns("getFiles") =>
          /\ IsFirstSeen(res, AllMatches(arg))
          /\ \A k \in 1..Len(arg) : \A m \in 1..Len(MatchesOf(arg[k])) :
                InSeq(MatchesOf(arg[k])[m], res)
    /\ Returns("uniqueItems") => IsFirstSeen(res, arg)

C14_Witness ==
    /\ Returns("getFiles")
    /\ arg = <<FileB, <<"*">>>>
    /\ res = <<FileB, FileA>>

Exited == scope = "exec" /\ pc = "exited"

(* The configuration errors that end Exec before an entry point is called *)
NoGlobs == plugin.GlobPaths = <<>>

FatalQuarantine ==
    /\ ~NoGlobs
    /\ plugin.FailOnQuarantine
    /\ plugin.QuarantineFile = "" \/ LoadYAML(plugin.QuarantineFile).err

C17_FatalBeforeAggregation ==
    (scope = "exec" /\ FatalQuarantine) =>
        /\ pc \in {"exec", "config", "exited"}
        /\ mode = ""
        /\ files = <<>> /\ ingested = <<>> /\ stats = ZeroStats
        /\ output = output0
        /\ pc = "exited" => exitCode = 1

C17_Witness ==
    /\ Exited /\ FatalQuarantine
    /\ plugin.QuarantineFile = "missing.yaml"
    /\ plugin.GlobPaths = <<"a">>
    /\ output0 # <<>> /\ output = output0
    /\ exitCode = 1

Written == scope = "exec" /\ pc \in {"written", "exited"} /\ mode # ""

NewLines == SubSeq(output, Len(output0) + 1, Len(output))

(* C18: once the entry point has returned and the file can be opened, the *)
(* output holds the lines it held before, followed by five lines, one per *)
(* key, whose values are the five counters.                               *)
C18_FiveOutputs ==
    (Written /\ droneOutput) =>
        /\ Len(output) = Len(output0) + 5
        /\ SubSeq(output, 1, Len(output0)) = output0
        /\ \A key \in OutputKeys :
              Cardinality({i \in 1..Len(NewLines) : NewLines[i][1] = key}) = 1
        /\ InSeq(Line("TOTAL_TESTS", stats.TestCount), NewLines)
        /\ InSeq(Line("PASSED_TESTS", stats.PassCount), NewLines)
        /\ InSeq(Line("FAILED_TESTS", stats.FailCount), NewLines)
        /\ InSeq(Line("SKIPPED_TESTS", stats.SkippedCount), NewLines)
        /\ InSeq(Line("ERROR_TESTS", stats.ErrorCount), NewLines)

C18_Witness ==
    /\ Written /\ droneOutput
    /\ output0 # <<>>
    /\ stats.TestCount = 2 /\ stats.PassCount = 1 /\ stats.FailCount = 1
    /\ output[1] = output0[1]
    /\ output[2] = Line("FAILED_TESTS", 1)

(* C20: on every run in which an entry point was called, the exit code is *)
(* set only after writeTestStats has run on the returned totals, also     *)
(* when the returned error is not nil.                                    *)
C20_OutputsBeforeExit ==
    (scope = "exec" /\ mode # "" /\ exitCode # -1) =>
        /\ pc = "exited"
        /\ droneOutput =>
              /\ Len(NewLines) = 5
              /\ InSeq(Line("TOTAL_TESTS", seen[StatusPassed] + seen[StatusFailed]
                                + seen[StatusSkipped] + seen[StatusError]), NewLines)
        /\ ~droneOutput => "Failed to open output file" \in logged
        /\ exitCode = 1 <=> ~err.nil

C20_Witness ==
    /\ Exited /\ mode = "ParseTests"
    /\ ~err.nil /\ exitCode = 1
    /\ droneOutput
    /\ InSeq(Line("FAILED_TESTS", 1), NewLines)
    /\ InSeq(Line("TOTAL_TESTS", 2), NewLines)

SecondReturn ==
    scope = "rerun" /\ Done /\ run = 2 /\ mode = first.mode /\ files = first.files

SameCounters(st, su) ==
    /\ st.TestCount = su.TestCount
    /\ st.PassCount = su.PassCount
    /\ st.FailCount = su.FailCount
    /\ st.SkippedCount = su.SkippedCount
    /\ st.ErrorCount = su.ErrorCount

(* C19, as claimed: the second of two calls of the same entry point over  *)
(* the same files, with the same quarantine list, returns the counters    *)
(* and the verdict of the first.                                          *)
C19_Original ==
    SecondReturn =>
        /\ SameCounters(stats, first.stats)
        /\ err.nil <=> first.err.nil

(* C19, amended: the second call returns the counters of the first; it    *)
(* returns the error of the first in ParseTests, and in                   *)
(* ParseTestsWithQuarantine when the clock reads at the second call what  *)
(* it read at the first, or more generally when no failed test is expired *)
(* at one of the two instants and not at the other.                       *)
C19_Idempotent ==
    SecondReturn =>
        /\ SameCounters(stats, first.stats)
        /\ mode = "ParseTests" => err = first.err
        /\ now = first.now => (err = first.err /\ stats = first.stats)
        /\ (\A i \in 1..Len(seenFailed) :
               isExpired(IdOf(seenFailed[i]), quarantineList, now)
                   <=> isExpired(IdOf(seenFailed[i]), quarantineList, first.now))
              => err = first.err

C19_Witness ==
    /\ SecondReturn /\ mode = "ParseTestsWithQuarantine"
    /\ now = first.now
    /\ stats.TestCount = 2 /\ stats.FailCount > 0
    /\ ~err.nil /\ err = first.err

---------------------------------------------------------------------------
(* Duplicate entries *)

(* The entry carries the identifier *)
Matches(e, id) ==
    /\ e.ismap /\ e.classname.ok /\ e.name.ok
    /\ Identifier(e.classname.s, e.name.s) = id

MatchingEntries(id) ==
    IF ~quarantineList.ok THEN {}
    ELSE {k \in 1..Len(quarantineList.tests) : Matches(quarantineList.tests[k], id)}

(* The index of the first entry that carries the identifier, 0 if none *)
FirstMatch(id) ==
    IF MatchingEntries(id) = {} THEN 0
    ELSE CHOOSE k \in MatchingEntries(id) : \A j \in MatchingEntries(id) : k <= j

(* The list that holds the first matching entry alone *)
FirstAlone(id) == QList(<<quarantineList.tests[FirstMatch(id)]>>)

(* C21, as claimed: when several entries carry the identifier of a failed *)
(* test, isQuarantined and isExpired give the answer of the first of them *)
(* alone; a later duplicate, such as one whose window is over, does not   *)
(* change whether the test is counted as expired.                         *)
C21_Original ==
    mode = "ParseTestsWithQuarantine" =>
        /\ \A i \in 1..Len(seenFailed) :
              LET id == IdOf(seenFailed[i]) IN
              FirstMatch(id) # 0 =>
                  /\ isQuarantined(id, quarantineList) = isQuarantined(id, FirstAlone(id))
                  /\ isExpired(id, quarantineList, now) = isExpired(id, FirstAlone(id), now)
        /\ Done =>
              expiredTests =
                  Cardinality({i \in 1..Len(seenFailed) :
                                  /\ FirstMatch(IdOf(seenFailed[i])) # 0
                                  /\ isExpired(IdOf(seenFailed[i]),
                                               FirstAlone(IdOf(seenFailed[i])), now)})

---------------------------------------------------------------------------
(* Matching *)

(* The entries of the list that are mappings with a string classname and  *)
(* a string name                                                          *)
WellFormed ==
    IF ~quarantineList.ok THEN {}
    ELSE {k \in 1..Len(quarantineList.tests) :
            /\ quarantineList.tests[k].ismap
            /\ quarantineList.tests[k].classname.ok
            /\ quarantineList.tests[k].name.ok}

(* Some entry has the classname and the name of the test asked about *)
SameFields ==
    \E k \in WellFormed :
        /\ EntryAt(k).classname.s = arg.Classname
        /\ EntryAt(k).name.s = arg.Name

(* Some entry joins to the identifier of the test asked about *)
SameIdentifier ==
    \E k \in WellFormed :
        Identifier(EntryAt(k).classname.s, EntryAt(k).name.s)
            = Identifier(arg.Classname, arg.Name)

(* C22, as claimed: a test is quarantined only if some entry has a string *)
(* classname equal to the test's classname and a string name equal to the *)
(* test's name; a test no such entry names is not quarantined.            *)
C22_Original ==
    Returns("isQuarantined") => (res <=> SameFields)

(* C22, amended: a test is quarantined exactly when some entry that is a  *)
(* mapping with a string classname and a string name joins, as classname  *)
(* "." name, to the identifier of the test; an entry with the classname   *)
(* and the name of the test is such an entry, an entry that lacks one of  *)
(* the two strings never is, and a test no entry joins to is not          *)
(* quarantined.                                                           *)
C22_MatchOnIdentifier ==
    Returns("isQuarantined") =>
        /\ res <=> SameIdentifier
        /\ SameFields => res
        /\ WellFormed = {} => ~res

C22_Witness ==
    /\ Returns("isQuarantined")
    /\ res /\ ~SameFields
    /\ Len(quarantineList.tests) = 2
    /\ WellFormed = {2}

---------------------------------------------------------------------------
(* Entries without a usable window *)

ArgId == Identifier(arg.Classname, arg.Name)

(* The entry lacks a start_date or an end_date string, or one of the two  *)
(* does not parse                                                         *)
NoWindow(e) ==
    \/ ~e.start_date.ok \/ ~e.end_date.ok
    \/ timeParse(e.start_date).err \/ timeParse(e.end_date).err

(* C23, as claimed: isExpired returns false for a test whose matched      *)
(* entry lacks start_date or end_date or has a date that does not parse,  *)
(* and for a test no entry matches; a failed test matched by such an      *)
(* entry is counted as actively quarantined, never as expired.            *)
C23_Original ==
    /\ Returns("isExpired") =>
          /\ FirstMatch(ArgId) = 0 => ~res
          /\ (FirstMatch(ArgId) # 0 /\ NoWindow(EntryAt(FirstMatch(ArgId)))) => ~res
    /\ (Done /\ mode = "ParseTestsWithQuarantine") =>
          \A i \in 1..Len(seenFailed) :
              (/\ FirstMatch(IdOf(seenFailed[i])) # 0
               /\ NoWindow(EntryAt(FirstMatch(IdOf(seenFailed[i]))))) =>
                  /\ expiredTests = 0
                  /\ err.nil

---------------------------------------------------------------------------
(* A document without the sequence *)

(* C24: when the document has no quarantine_tests key, or the key does    *)
(* not hold a sequence, isQuarantined and isExpired return false for      *)
(* every test; in quarantine mode every failed test read is counted as a  *)
(* non-quarantined failure, none as expired, and the run returns with the *)
(* error exactly when some test failed.                                   *)
C24_MalformedList ==
    ~quarantineList.ok =>
        /\ Returns("isQuarantined") => ~res
        /\ Returns("isExpired") => ~res
        /\ mode = "ParseTestsWithQuarantine" =>
              /\ expiredTests = 0
              /\ nonQuarantinedFailures = Len(seenFailed)
              /\ SeenNotQuarantined = 1..Len(seenFailed)
              /\ Done => /\ err.nil <=> seenFailed = <<>>
                         /\ ~err.nil => (err.a = Len(seenFailed) /\ err.b = 0)

C24_Witness ==
    /\ Done /\ mode = "ParseTestsWithQuarantine"
    /\ ~quarantineList.ok
    /\ Len(seenFailed) = 1
    /\ nonQuarantinedFailures = 1 /\ expiredTests = 0
    /\ ~err.nil

---------------------------------------------------------------------------
(* Outcomes outside the four *)

(* C25: a test whose status is none of passed, failed, skipped, error is  *)
(* counted in TestCount and in none of the four counters, is put in none  *)
(* of the three lists and does not change the verdict: TestCount minus    *)
(* the sum of the four counters is the number of such tests read.         *)
C25_OtherStatusOnlyInTestCount ==
    mode \in {"ParseTests", "ParseTestsWithQuarantine"} =>
        /\ stats.TestCount = SeenTotal
        /\ stats.TestCount - CounterSum(stats) = seen[StatusOther]
        /\ stats.PassCount = seen[StatusPassed]
        /\ stats.FailCount = seen[StatusFailed]
        /\ stats.SkippedCount = seen[StatusSkipped]
        /\ stats.ErrorCount = seen[StatusError]
        /\ Len(stats.NonQuarantinedFailuresList) + Len(stats.QuarantinedFailuresList)
              + Len(stats.ExpiredTestsList) <= seen[StatusFailed]
        /\ nonQuarantinedFailures + expiredTests <= seen[StatusFailed]
        /\ (Done /\ mode = "ParseTests") =>
              (err.nil <=> (seen[StatusFailed] = 0 /\ seen[StatusError] = 0))
        /\ (Done /\ mode = "ParseTestsWithQuarantine") =>
              (err.nil <=> (SeenNotQuarantined = {} /\ SeenExpired = {}))

C25_Witness ==
    /\ Done
    /\ seen[StatusOther] = 1 /\ seen[StatusPassed] = 1
    /\ stats.TestCount = 2 /\ CounterSum(stats) = 1
    /\ err.nil

---------------------------------------------------------------------------
(* The order of the files *)

(* What the j-th file of the current call holds *)
ContentOf(j) ==
    IF run = 2 THEN disk[IndexOf(files[j], first.files)] ELSE disk[j]

(* The counters of the j-th file taken alone *)
SubTotal(j) ==
    IF ContentOf(j).err THEN ZeroStats
    ELSE CountSuites(ZeroStats, ContentOf(j).suites)

(* The sum of the counters of the first k files *)
RECURSIVE SumOfSubTotals(_)
SumOfSubTotals(k) ==
    IF k = 0 THEN ZeroStats ELSE AddStats(SumOfSubTotals(k - 1), SubTotal(k))

(* A second call of the same entry point, at the same instant, over the   *)
(* same files in the same or in another order, has returned               *)
ReturnedAgain ==
    /\ scope = "rerun" /\ Done /\ run = 2
    /\ mode = first.mode /\ now = first.now
    /\ SameFiles(files, first.files)

(* C26: the order of the files does not matter: a call over the same      *)
(* files in another order returns, in both entry points, the same five    *)
(* counters and the same verdict; and after each file the running total   *)
(* is the sum of the sub-totals of the files read so far.                 *)
C26_OrderIndependent ==
    /\ ReturnedAgain =>
          /\ SameCounters(stats, first.stats)
          /\ err = first.err
          /\ nonQuarantinedFailures = first.nonQuarantinedFailures
          /\ expiredTests = first.expiredTests
    /\ (scope = "rerun" /\ pc \in {"loop", "done"}) =>
          SameCounters(stats, SumOfSubTotals(idx - 1))

C26_Witness ==
    /\ ReturnedAgain /\ mode = "ParseTestsWithQuarantine"
    /\ Len(files) = 2 /\ files # first.files
    /\ disk[1] # disk[2] /\ ~disk[1].err /\ ~disk[2].err
    /\ stats.TestCount = 2 /\ stats.FailCount = 1 /\ stats.PassCount = 1
    /\ err = first.err

---------------------------------------------------------------------------
(* The two entry points over the same files *)

(* The other entry point has returned over the files the first call read *)
OtherModeReturn ==
    /\ scope = "rerun" /\ Done /\ run = 2
    /\ mode # first.mode
    /\ SameFiles(files, first.files)

(* C27: the quarantine list does not change the counters:                 *)
(* ParseTestsWithQuarantine returns, over the same files, the five        *)
(* counters ParseTests returns, whatever the list quarantines; only the   *)
(* error and the counts of non-quarantined and expired failures differ.   *)
C27_QuarantineKeepsCounters ==
    OtherModeReturn =>
        /\ SameCounters(stats, first.stats)
        /\ mode = "ParseTests" =>
              /\ nonQuarantinedFailures = 0 /\ expiredTests = 0
              /\ first.nonQuarantinedFailures + first.expiredTests <= stats.FailCount
        /\ mode = "ParseTestsWithQuarantine" =>
              /\ first.nonQuarantinedFailures = 0 /\ first.expiredTests = 0
              /\ nonQuarantinedFailures + expiredTests <= first.stats.FailCount

C27_Witness ==
    /\ OtherModeReturn /\ mode = "ParseTests"
    /\ first.err.nil /\ ~err.nil
    /\ stats.FailCount = 1 /\ first.stats.FailCount = 1
    /\ stats.TestCount = 2
    /\ first.nonQuarantinedFailures = 0 /\ first.expiredTests = 0

---------------------------------------------------------------------------
(* The three buckets *)

IdsOf(indices) == {IdOf(seenFailed[i]) : i \in indices}

ItemsOf(list) == {list[i] : i \in 1..Len(list)}

---------------------------------------------------------------------------
(* Files that do not parse *)

(* An entry point has returned over a list of files none of which parsed *)
NoneParsed ==
    /\ mode \in {"ParseTests", "ParseTestsWithQuarantine"}
    /\ pc \in {"done", "written", "exited"}
    /\ files # <<>>
    /\ Len(ingested) = Len(files)
    /\ \A i \in 1..Len(ingested) : ~ingested[i]

(* C29: when the list of files is not empty and no file of it parses,     *)
(* both entry points return totals that are all zero and no error, each   *)
(* file having been logged, and Exec leaves with exit code 0.             *)
C29_NoneParsedPasses ==
    NoneParsed =>
        /\ stats = ZeroStats
        /\ nonQuarantinedFailures = 0 /\ expiredTests = 0
        /\ err.nil
        /\ "could not parse file" \in logged
        /\ "could not find any files matching the provided report path" \notin logged
        /\ Exited => exitCode = 0
        /\ (Written /\ droneOutput) =>
              \A key \in OutputKeys : InSeq(Line(key, 0), NewLines)

C29_Witness ==
    /\ NoneParsed /\ Exited
    /\ mode = "ParseTestsWithQuarantine"
    /\ Len(files) = 2
    /\ droneOutput
    /\ exitCode = 0

====
